---- MODULE Spec2Model ----
(***************************************************************************)
(* A model of the PNG chunk codec of src/src/chunk.rs: Chunk::new,         *)
(* Chunk::as_bytes and the TryFrom<&[u8]> parser, with the CRC-32/IEEE     *)
(* digest they use.                                                        *)
(*                                                                         *)
(* Numbers wider than 31 bits (u32, usize) are pairs <<hi, lo>> of value   *)
(* hi * 2^16 + lo with lo in 0..65535, so that 2^31, 2^32 - 1 and lengths   *)
(* beyond u32 keep their exact value.  A u32 has hi in 0..65535.           *)
(***************************************************************************)
EXTENDS Integers, Sequences, FiniteSets, TLC

\* ------------------------------------------------------------ wide numbers

Limb == 256 * 256

WOf(n) == <<n \div Limb, n % Limb>>

WGt(a, b) == a[1] > b[1] \/ (a[1] = b[1] /\ a[2] > b[2])

\* a << 1 (no wrap: the values shifted here stay below the type's width)
WShl1(a) == <<(2 * a[1]) + ((2 * a[2]) \div Limb), (2 * a[2]) % Limb>>

RECURSIVE WShl(_, _)
WShl(a, k) == IF k = 0 THEN a ELSE WShl(WShl1(a), k - 1)

\* a >> 8 on a u32
WShr8(a) == <<a[1] \div 256, ((a[1] % 256) * 256) + (a[2] \div 256)>>

\* a >> 1 on a u32
WShr1(a) == <<a[1] \div 2, ((a[1] % 2) * (Limb \div 2)) + (a[2] \div 2)>>

RECURSIVE XorN(_, _, _)
XorN(a, b, bits) ==
    IF bits = 0 THEN 0
    ELSE (((a % 2) + (b % 2)) % 2) + 2 * XorN(a \div 2, b \div 2, bits - 1)

\* xor of two 4-bit values, tabulated once
Xor4 == [a \in 0..15 |-> [b \in 0..15 |-> XorN(a, b, 4)]]

Xor8(a, b) == (Xor4[a \div 16][b \div 16] * 16) + Xor4[a % 16][b % 16]

Xor16(a, b) == (Xor8(a \div 256, b \div 256) * 256) + Xor8(a % 256, b % 256)

WXor(a, b) == <<Xor16(a[1], b[1]), Xor16(a[2], b[2])>>

\* !a on a u32
WNot(a) == <<Limb - 1 - a[1], Limb - 1 - a[2]>>

\* u32::from_be_bytes / u32::to_be_bytes
U32FromBeBytes(b) == <<(b[1] * 256) + b[2], (b[3] * 256) + b[4]>>

U32ToBeBytes(w) == <<w[1] \div 256, w[1] % 256, w[2] \div 256, w[2] % 256>>

Reverse(q) == [i \in 1..Len(q) |-> q[Len(q) + 1 - i]]

\* --------------------------------------------------------------- CRC-32

\* the reflected IEEE polynomial 0xEDB88320 of crc32::IEEE
IEEE == <<60856, 33568>>

RECURSIVE TableEntry(_, _)
TableEntry(v, k) ==
    IF k = 0 THEN v
    ELSE TableEntry(IF v[2] % 2 = 1 THEN WXor(WShr1(v), IEEE) ELSE WShr1(v), k - 1)

\* crc32::make_table(IEEE), built by Digest::new
CrcTable == [i \in 0..255 |-> TableEntry(<<0, i>>, 8)]

IsU32(w) == w[1] \in 0..(Limb - 1) /\ w[2] \in 0..(Limb - 1)

\* the byte loop of crc32::update, from byte i on; value is a u32 throughout
RECURSIVE CrcLoop(_, _, _)
CrcLoop(value, bytes, i) ==
    IF i > Len(bytes) \/ ~IsU32(value) THEN value
    ELSE CrcLoop(WXor(CrcTable[Xor8(value[2] % 256, bytes[i])], WShr8(value)),
                 bytes, i + 1)

\* crc32::update: complement, fold every byte through the table, complement
CrcUpdate(value, bytes) == WNot(CrcLoop(WNot(value), bytes, 1))

\* crc32::Digest::new(IEEE): the running value starts at 0
DigestNew == <<0, 0>>

\* Hasher32::write
DigestWrite(digest, bytes) == CrcUpdate(digest, bytes)

\* Hasher32::sum32
DigestSum32(digest) == digest

\* ------------------------------------------------------- numeric conversions

\* the shift of `1 << 31`, the largest length a chunk may declare
MaxLengthShift == 31

MaxLength == WShl(<<0, 1>>, MaxLengthShift)

\* usize -> u32 (`chunk_data.len().try_into()?`): fails above u32::MAX
UsizeToU32(n) == [ok |-> n[1] < Limb, value |-> n]

\* u32 -> usize (`length.try_into()?`): fails when usize is narrower than 32 bits
U32ToUsize(n, bits) == [ok |-> bits >= 32, value |-> n]

\* `vec![0; n]` panics with "capacity overflow" when n exceeds isize::MAX,
\* that is when n >= 2^(bits - 1): hi >= 2^(bits - 17).  With 64 bits the
\* limit lies above every length written as <<hi, lo>> here.
VecCapacityOverflow(n, bits) == bits - 17 < 31 /\ n[1] >= 2 ^ (bits - 17)

\* A Vec<u8>: its length and its elements.  A buffer too long to write out
\* (longer than 2^31 bytes) carries its length only.
VecOf(bytes) == [len |-> WOf(Len(bytes)), bytes |-> bytes]

HugeVec(len) == [len |-> len, bytes |-> <<>>]

\* ------------------------------------------------------------- ChunkType

IsLetter(b) == b \in 65..90 \/ b \in 97..122

\* ChunkType::try_from([u8; 4]): stores the four bytes, never rejects
ChunkTypeTryFrom(buf) == [ok |-> TRUE, value |-> [bytes |-> buf]]

\* ChunkType::bytes
ChunkTypeBytes(t) == t.bytes

\* ----------------------------------------------------------------- Chunk

Ok(c) == [kind |-> "Ok", chunk |-> <<c>>]

Err(e) == [kind |-> e, chunk |-> <<>>]

Panic == [kind |-> "Panic", chunk |-> <<>>]

\* a Chunk::new that forgets its length check
DataTooLongNever(len) == FALSE

\* `chunk_data.len() > 1 << 31` of Chunk::new
DataTooLong(len) == WGt(len, MaxLength)

\* a Chunk::new that leaves the type's bytes out of the checksum
NewDigestDataOnly(chunk_type, chunk_data) == DigestWrite(DigestNew, chunk_data.bytes)

\* the digest of Chunk::new: the type's bytes, then the data
NewDigest(chunk_type, chunk_data) ==
    DigestWrite(DigestWrite(DigestNew, ChunkTypeBytes(chunk_type)), chunk_data.bytes)

\* a Chunk::new that rejects a ChunkType whose bytes are not all letters
ChunkNewLettersOnly(chunk_type, chunk_data) ==
    IF DataTooLong(chunk_data.len) THEN Err("InvalidChunkLength")
    ELSE IF \E i \in 1..4 : ~IsLetter(ChunkTypeBytes(chunk_type)[i])
    THEN Err("InvalidChunkType")
    ELSE LET digest == NewDigest(chunk_type, chunk_data)
             length == UsizeToU32(chunk_data.len)
         IN  IF ~length.ok THEN Err("NumericConversion")
             ELSE Ok([length     |-> length.value,
                      chunk_type |-> chunk_type,
                      chunk_data |-> chunk_data,
                      crc        |-> DigestSum32(digest)])

\* Chunk::new
ChunkNew(chunk_type, chunk_data) ==
    IF DataTooLong(chunk_data.len) THEN Err("InvalidChunkLength")
    ELSE LET digest == NewDigest(chunk_type, chunk_data)
             length == UsizeToU32(chunk_data.len)
         IN  IF ~length.ok THEN Err("NumericConversion")
             ELSE Ok([length     |-> length.value,
                      chunk_type |-> chunk_type,
                      chunk_data |-> chunk_data,
                      crc        |-> DigestSum32(digest)])

\* an as_bytes that writes the length with to_le_bytes
AsBytesLeLength(c) ==
    Reverse(U32ToBeBytes(c.length)) \o ChunkTypeBytes(c.chunk_type)
        \o c.chunk_data.bytes \o U32ToBeBytes(c.crc)

\* an as_bytes that writes the crc with to_le_bytes
AsBytesLeCrc(c) ==
    U32ToBeBytes(c.length) \o ChunkTypeBytes(c.chunk_type)
        \o c.chunk_data.bytes \o Reverse(U32ToBeBytes(c.crc))

\* Chunk::as_bytes
AsBytesOf(c) ==
    U32ToBeBytes(c.length) \o ChunkTypeBytes(c.chunk_type)
        \o c.chunk_data.bytes \o U32ToBeBytes(c.crc)

\* Read::read_exact on a Cursor at position pos, into a buffer of n bytes
ReadExact(raw, pos, n) ==
    IF WGt(n, WOf(Len(raw) - pos))
    THEN [ok |-> FALSE, bytes |-> <<>>, pos |-> Len(raw)]
    ELSE LET k == (n[1] * Limb) + n[2]
         IN  [ok |-> TRUE, bytes |-> SubSeq(raw, pos + 1, pos + k), pos |-> pos + k]

\* a try_from that rejects a length of exactly 2^31 too
LengthTooLargeOrEqual(length) == ~WGt(MaxLength, length)

\* `length > 1 << 31` of try_from
LengthTooLarge(length) == WGt(length, MaxLength)

\* the digest of try_from: the four bytes read for the type, then the data
ParseDigest(buf, chunk_data) == DigestWrite(DigestWrite(DigestNew, buf), chunk_data)

\* a try_from that compares the low 16 bits of the checksum only
CrcMismatchLow16(digest, crc) == DigestSum32(digest)[2] # crc[2]

\* a try_from that forgets to compare the checksum
CrcMismatchNever(digest, crc) == FALSE

\* `digest.sum32() != crc` of try_from
CrcMismatch(digest, crc) == DigestSum32(digest) # crc

\* <Chunk as TryFrom<&[u8]>>::try_from
TryFrom(raw, bits) ==
    LET rLen == ReadExact(raw, 0, WOf(4)) IN
    IF ~rLen.ok THEN Err("Io") ELSE
    LET length == U32FromBeBytes(rLen.bytes) IN
    IF LengthTooLarge(length) THEN Err("InvalidChunkLength") ELSE
    LET rType == ReadExact(raw, rLen.pos, WOf(4)) IN
    IF ~rType.ok THEN Err("Io") ELSE
    LET chunk_type == ChunkTypeTryFrom(rType.bytes) IN
    IF ~chunk_type.ok THEN Err("InvalidChunkType") ELSE
    LET size == U32ToUsize(length, bits) IN
    IF ~size.ok THEN Err("NumericConversion") ELSE
    IF VecCapacityOverflow(size.value, bits) THEN Panic ELSE
    LET rData == ReadExact(raw, rType.pos, size.value) IN
    IF ~rData.ok THEN Err("Io") ELSE
    LET digest == ParseDigest(rType.bytes, rData.bytes)
        rCrc   == ReadExact(raw, rData.pos, WOf(4))
    IN
    IF ~rCrc.ok THEN Err("Io") ELSE
    LET crc == U32FromBeBytes(rCrc.bytes) IN
    IF CrcMismatch(digest, crc) THEN Err("InvalidCRC") ELSE
    Ok([length     |-> length,
        chunk_type |-> chunk_type.value,
        chunk_data |-> [len |-> size.value, bytes |-> rData.bytes],
        crc        |-> crc])

\* ------------------------------------------------------------ the inputs

\* the longest data buffer written out byte by byte
MaxDataLen == 2

\* the pointer widths a build with std can have
UsizeBitsSet == {32, 64}

DataByteSet == {0, 65, 255}

\* "RuSt"; "Rust", whose third byte is lowercase; four bytes that are no letters
TypeByteSet == {<<82, 117, 83, 116>>, <<82, 117, 115, 116>>, <<0, 49, 255, 10>>}

RECURSIVE SeqsUpTo(_, _)
SeqsUpTo(S, n) ==
    IF n = 0 THEN {<<>>}
    ELSE LET shorter == SeqsUpTo(S, n - 1)
         IN  shorter \cup {Append(q, x) : q \in {r \in shorter : Len(r) = n - 1}, x \in S}

DataSet == SeqsUpTo(DataByteSet, MaxDataLen)

\* "This is where your secret message will be!" of the unit tests
TestMessage ==
    <<84, 104, 105, 115, 32, 105, 115, 32, 119, 104, 101, 114, 101, 32, 121, 111,
      117, 114, 32, 115, 101, 99, 114, 101, 116, 32, 109, 101, 115, 115, 97, 103,
      101, 32, 119, 105, 108, 108, 32, 98, 101, 33>>

\* tests::testing_chunk: length 42, "RuSt", the message, crc 2882656334
TestingChunkBytes ==
    <<0, 0, 0, 42>> \o <<82, 117, 83, 116>> \o TestMessage \o <<171, 209, 216, 78>>

\* tests::test_invalid_chunk_from_bytes: the same with crc 2882656333
InvalidChunkBytes ==
    <<0, 0, 0, 42>> \o <<82, 117, 83, 116>> \o TestMessage \o <<171, 209, 216, 77>>

\* the documentation's example: "bLOb", "THE CHUNK DATA", crc 4148869028
DocType == <<98, 76, 79, 98>>

DocData == <<84, 72, 69, 32, 67, 72, 85, 78, 75, 32, 68, 65, 84, 65>>

\* lengths of data buffers too long to write out: 2^31 + 1, 2^32 - 1, 2^32, 2^32 + 7
HugeLenSet == {<<32768, 1>>, <<65535, 65535>>, <<65536, 0>>, <<65536, 7>>}

\* the data buffers a caller of Chunk::new can hold on a build of that width
NewDataSet(bits) ==
    {VecOf(d) : d \in DataSet \cup {DocData}}
        \cup {HugeVec(n) : n \in {m \in HugeLenSet : ~VecCapacityOverflow(m, bits)}}

\* length fields: every short length, and values around 2^31 and at u32::MAX
LenFieldSet ==
    {U32ToBeBytes(WOf(n)) : n \in 0..(MaxDataLen + 1)}
        \cup {<<1, 0, 0, 0>>, <<127, 255, 255, 255>>, <<128, 0, 0, 0>>,
              <<128, 0, 0, 1>>, <<255, 255, 255, 255>>}

FlipBit(q, i, k) == [q EXCEPT ![i] = Xor8(q[i], 2 ^ k)]

\* crc fields for a record of type t and data d: the right one, the right one
\* with its lowest bit flipped, the right one byte-reversed, and zero
CrcFieldSet(t, d) ==
    LET right == U32ToBeBytes(CrcUpdate(DigestNew, t \o d))
    IN  {right, FlipBit(right, 4, 0), Reverse(right), <<0, 0, 0, 0>>}

TrailingSet == {<<>>, <<0>>, <<255, 1>>}

\* the crc fields that replace the one of a buffer that parsed: every single
\* bit flipped, the bytes reversed, all zeros, all ones
CrcReplacementSet(crc) ==
    ({FlipBit(crc, i, k) : i \in 1..4, k \in 0..7}
        \cup {Reverse(crc), <<0, 0, 0, 0>>, <<255, 255, 255, 255>>}) \ {crc}

\* ------------------------------------------------------- the state machine

VARIABLES
    usizeBits,  \* the build's pointer width
    last,       \* the operation that ran last: "init", "new", "try_from", "as_bytes"
    args,       \* <<>> or <<[chunk_type, chunk_data]>>: the arguments of Chunk::new
    raw,        \* the buffer handed to try_from
    source,     \* where raw came from: "none", "input", "as_bytes", "bit_flip", "crc_replaced"
    orig,       \* the buffer that parsed, before a bit or its crc field was changed
    result,     \* how the last fallible operation ended
    chunk,      \* <<>> or <<c>>: the Chunk the last operation returned
    prev,       \* <<>> or <<[chunk, by]>>: the Chunk as_bytes serialized, and its maker
    out         \* the Vec<u8> as_bytes returned

vars == <<usizeBits, last, args, raw, source, orig, result, chunk, prev, out>>

Init ==
    /\ usizeBits \in UsizeBitsSet
    /\ last = "init"
    /\ args = <<>>
    /\ raw = <<>>
    /\ source = "none"
    /\ orig = <<>>
    /\ result = "none"
    /\ chunk = <<>>
    /\ prev = <<>>
    /\ out = <<>>

\* a caller builds a chunk: Chunk::new(chunk_type, chunk_data)
New(t, d) ==
    /\ last = "init"
    /\ LET r == ChunkNew(t, d)
       IN  /\ result' = r.kind
           /\ chunk' = r.chunk
    /\ args' = <<[chunk_type |-> t, chunk_data |-> d]>>
    /\ last' = "new"
    /\ UNCHANGED <<usizeBits, raw, source, orig, prev, out>>

Parse(buf, from) ==
    /\ LET r == TryFrom(buf, usizeBits)
       IN  /\ result' = r.kind
           /\ chunk' = r.chunk
    /\ raw' = buf
    /\ source' = from
    /\ last' = "try_from"

\* a caller parses a buffer of its own: Chunk::try_from(buf)
TryFromInput(buf) ==
    /\ last = "init"
    /\ Parse(buf, "input")
    /\ UNCHANGED <<usizeBits, args, orig, prev, out>>

\* chunk.as_bytes() on the chunk just returned
AsBytes ==
    /\ last \in {"new", "try_from"}
    /\ source \in {"none", "input"}
    /\ chunk # <<>>
    /\ out' = AsBytesOf(chunk[1])
    /\ prev' = <<[chunk |-> chunk[1], by |-> last]>>
    /\ last' = "as_bytes"
    /\ UNCHANGED <<usizeBits, args, raw, source, orig, result, chunk>>

\* Chunk::try_from on the bytes as_bytes returned
TryFromSerialized ==
    /\ last = "as_bytes"
    /\ Parse(out, "as_bytes")
    /\ UNCHANGED <<usizeBits, args, orig, prev, out>>

Parsed == last = "try_from" /\ source = "input" /\ result = "Ok"

\* Chunk::try_from on a buffer that parsed, with bit k of byte i of its type
\* or data region flipped
TryFromBitFlipped(i, k) ==
    /\ Parsed
    /\ i \in 5..(Len(AsBytesOf(chunk[1])) - 4)
    /\ Parse(FlipBit(raw, i, k), "bit_flip")
    /\ orig' = raw
    /\ UNCHANGED <<usizeBits, args, prev, out>>

\* Chunk::try_from on a buffer that parsed, with its crc field replaced
TryFromCrcReplaced(field) ==
    /\ Parsed
    /\ LET at == Len(AsBytesOf(chunk[1])) - 4
       IN  Parse(SubSeq(raw, 1, at) \o field \o SubSeq(raw, at + 5, Len(raw)),
                 "crc_replaced")
    /\ orig' = raw
    /\ UNCHANGED <<usizeBits, args, prev, out>>

\* the buffers a caller hands to try_from: a length field, a type, data and a
\* crc field, followed by trailing bytes or cut short anywhere
Forged(len, t, d, crc, trailing, cut) == SubSeq(len \o t \o d \o crc \o trailing, 1, cut)

\* Chunk::new on every type and data buffer of the input sets
NewCall ==
    /\ last = "init"
    /\ \E t \in TypeByteSet \cup {DocType}, d \in NewDataSet(usizeBits) :
            New(ChunkTypeTryFrom(t).value, d)

\* Chunk::try_from on every forged buffer
TryFromForged ==
    /\ last = "init"
    /\ \E len \in LenFieldSet, t \in TypeByteSet, d \in DataSet, trailing \in TrailingSet :
            \E crc \in CrcFieldSet(t, d) :
                \E cut \in 0..(12 + Len(d) + Len(trailing)) :
                    TryFromInput(Forged(len, t, d, crc, trailing, cut))

\* Chunk::try_from on the buffers of the unit tests
TryFromTestBytes ==
    /\ last = "init"
    /\ \E buf \in {TestingChunkBytes, InvalidChunkBytes} : TryFromInput(buf)

TryFromAnyBitFlipped ==
    /\ Parsed
    /\ \E i \in 5..Len(raw), k \in 0..7 : TryFromBitFlipped(i, k)

TryFromAnyCrcReplaced ==
    /\ Parsed
    /\ \E field \in CrcReplacementSet(U32ToBeBytes(chunk[1].crc)) :
            TryFromCrcReplaced(field)

Next ==
    \/ NewCall
    \/ TryFromForged
    \/ TryFromTestBytes
    \/ AsBytes
    \/ TryFromSerialized
    \/ TryFromAnyBitFlipped
    \/ TryFromAnyCrcReplaced

Spec == Init /\ [][Next]_vars

\* ------------------------------------------------- what the claims refer to

TwoPow31 == <<32768, 0>>

\* the length a buffer of at least four bytes declares, big-endian
Declared(buf) == <<(buf[1] * 256) + buf[2], (buf[3] * 256) + buf[4]>>

WPlus(a, n) == <<a[1] + ((a[2] + n) \div Limb), (a[2] + n) % Limb>>

\* the buffer is shorter than 4 + 4 + length + 4
TooShort(buf) == Len(buf) < 4 \/ WGt(WPlus(Declared(buf), 12), WOf(Len(buf)))

DeclaredAtMost2Pow31(buf) == Len(buf) >= 4 /\ ~WGt(Declared(buf), TwoPow31)

\* of a buffer that is not too short: its declared length as a number, the
\* bytes of its type and data regions, and its crc field
DataLen(buf) == (Declared(buf)[1] * Limb) + Declared(buf)[2]

TypeAndData(buf) == SubSeq(buf, 5, 8 + DataLen(buf))

CrcField(buf) == Declared(SubSeq(buf, 9 + DataLen(buf), 12 + DataLen(buf)))

\* CRC-32/IEEE bit by bit: register 0xFFFFFFFF, each byte xored into the low
\* bits and shifted out through the reflected polynomial, final complement
RECURSIVE RefBits(_, _)
RefBits(reg, k) ==
    IF k = 0 \/ ~IsU32(reg) THEN reg
    ELSE RefBits(IF reg[2] % 2 = 1 THEN WXor(WShr1(reg), <<60856, 33568>>) ELSE WShr1(reg),
                 k - 1)

RECURSIVE RefBytes(_, _, _)
RefBytes(reg, bytes, i) ==
    IF i > Len(bytes) \/ ~IsU32(reg) THEN reg
    ELSE RefBytes(RefBits(<<reg[1], Xor16(reg[2], bytes[i])>>, 8), bytes, i + 1)

Crc32Ieee(bytes) == WNot(RefBytes(<<65535, 65535>>, bytes, 1))

RoundTripOf(by) == last = "try_from" /\ source = "as_bytes" /\ prev[1].by = by

\* ---------------------------------------------------------------- claims

\* C1: round trip.  When Chunk::new(t, d) succeeds, Chunk::try_from of the
\* bytes as_bytes gives for that chunk succeeds, and the chunk it returns has
\* the same length, chunk_type, chunk_data and crc.
C1_RoundTrip ==
    RoundTripOf("new") => (result = "Ok" /\ chunk = <<prev[1].chunk>>)

C1_Witness ==
    /\ RoundTripOf("new")
    /\ result = "Ok"
    /\ Len(chunk[1].chunk_data.bytes) > 0
    /\ chunk[1].chunk_type.bytes = <<0, 49, 255, 10>>

\* C2: every Chunk that exists, returned by Chunk::new or by Chunk::try_from,
\* has crc equal to CRC-32/IEEE over its four type bytes followed by its data.
C2_ChecksumInvariant ==
    chunk # <<>> =>
        chunk[1].crc = Crc32Ieee(ChunkTypeBytes(chunk[1].chunk_type)
                                     \o chunk[1].chunk_data.bytes)

\* the chunk of tests::test_chunk_crc, parsed, with crc 2882656334
C2_Witness ==
    /\ last = "try_from"
    /\ raw = TestingChunkBytes
    /\ chunk # <<>>
    /\ chunk[1].crc = <<43985, 55374>>

\* C3: a buffer that is long enough for its declared length (at most 2^31) and
\* whose crc field differs from CRC-32/IEEE over its type and data bytes fails
\* with InvalidCRC and yields no chunk; so does a buffer that parsed, once its
\* crc field is replaced by another value.
C3_ChecksumRejection ==
    /\ (/\ last = "try_from"
        /\ ~TooShort(raw)
        /\ DeclaredAtMost2Pow31(raw)
        /\ CrcField(raw) # Crc32Ieee(TypeAndData(raw)))
            => (result = "InvalidCRC" /\ chunk = <<>>)
    /\ source = "crc_replaced" => (result = "InvalidCRC" /\ chunk = <<>>)

C3_Witness ==
    /\ source = "crc_replaced"
    /\ result = "InvalidCRC"
    /\ Len(raw) > 12
    /\ SubSeq(raw, 1, Len(raw) - 4) = SubSeq(orig, 1, Len(orig) - 4)

\* C4: flipping one bit of the type region or of the data region of a buffer
\* that parsed, its length and crc fields kept, makes try_from fail with
\* InvalidCRC.
C4_CrcSensitivity ==
    source = "bit_flip" =>
        /\ SubSeq(raw, 1, 4) = SubSeq(orig, 1, 4)
        /\ Len(raw) = Len(orig)
        /\ result = "InvalidCRC"

C4_Witness ==
    /\ source = "bit_flip"
    /\ result = "InvalidCRC"
    /\ SubSeq(raw, 5, 8) = SubSeq(orig, 5, 8)
    /\ raw # orig

\* C5: Chunk::new with data longer than 2^31 bytes, and Chunk::try_from on a
\* buffer whose first four bytes declare more than 2^31, fail with
\* InvalidChunkLength whatever follows the length field; a length of exactly
\* 2^31 is not rejected by that check.  (The outcome of Chunk::new on 2^31
\* bytes of data is read off a buffer of that length whose bytes are not
\* written out: the length check does not look at them.)
C5_LengthEnforcement ==
    /\ (last = "new" /\ WGt(args[1].chunk_data.len, TwoPow31))
            => result = "InvalidChunkLength"
    /\ last = "new"
            => ChunkNew(args[1].chunk_type, HugeVec(TwoPow31)).kind # "InvalidChunkLength"
    /\ (last = "try_from" /\ Len(raw) >= 4 /\ WGt(Declared(raw), TwoPow31))
            => result = "InvalidChunkLength"
    /\ (last = "try_from" /\ Len(raw) >= 4 /\ Declared(raw) = TwoPow31)
            => result # "InvalidChunkLength"

\* a buffer of four bytes only, declaring 2^31 + 1
C5_Witness ==
    /\ last = "try_from"
    /\ raw = <<128, 0, 0, 1>>
    /\ result = "InvalidChunkLength"

\* C6: Chunk::try_from on a buffer shorter than 4 + 4 + length + 4 bytes fails
\* with a truncation (I/O) error; it never succeeds and never panics.  (A
\* declared length above 2^31 is C5's case and is left out here.)
C6_Truncation ==
    (/\ last = "try_from"
     /\ TooShort(raw)
     /\ Len(raw) >= 4 => ~WGt(Declared(raw), TwoPow31))
        => result = "Io"

\* C7: every Chunk returned by Chunk::new or Chunk::try_from has length equal
\* to the length of its data, and at most 2^31.
C7_LengthInvariant ==
    chunk # <<>> =>
        /\ chunk[1].length = chunk[1].chunk_data.len
        /\ chunk[1].length = WOf(Len(chunk[1].chunk_data.bytes))
        /\ ~WGt(chunk[1].length, TwoPow31)

\* a parsed chunk whose buffer went on after the record
C7_Witness ==
    /\ last = "try_from"
    /\ source = "input"
    /\ chunk # <<>>
    /\ chunk[1].length = <<0, MaxDataLen>>
    /\ Len(raw) > 12 + MaxDataLen

\* C8: when Chunk::try_from(b) succeeds with declared length L, as_bytes of the
\* result has 12 + L bytes and equals the first 12 + L bytes of b; parsing that
\* prefix gives a chunk equal to the one parsed from b.
C8_SerializationIsInputPrefix ==
    /\ (last = "as_bytes" /\ prev[1].by = "try_from")
            => /\ Len(out) = 12 + DataLen(raw)
               /\ out = SubSeq(raw, 1, 12 + DataLen(raw))
    /\ RoundTripOf("try_from") => (result = "Ok" /\ chunk = <<prev[1].chunk>>)

\* a parsed buffer with bytes after its record, serialized
C8_Witness ==
    /\ last = "as_bytes"
    /\ prev[1].by = "try_from"
    /\ Len(out) > 12
    /\ Len(raw) > Len(out)

\* C9: the type bytes are never a reason for rejection.  Chunk::new succeeds
\* for every ChunkType when the data is not too long, and Chunk::try_from
\* succeeds on every buffer with a declared length of at most 2^31, enough
\* bytes and a matching crc, whatever its four type bytes are.
C9_TypeNeverRejects ==
    /\ (last = "new" /\ ~WGt(args[1].chunk_data.len, TwoPow31)) => result = "Ok"
    /\ (/\ last = "try_from"
        /\ ~TooShort(raw)
        /\ DeclaredAtMost2Pow31(raw)
        /\ CrcField(raw) = Crc32Ieee(TypeAndData(raw)))
            => (result = "Ok" /\ ChunkTypeBytes(chunk[1].chunk_type) = SubSeq(raw, 5, 8))

\* a buffer whose type bytes are no letters, parsed
C9_Witness ==
    /\ last = "try_from"
    /\ source = "input"
    /\ result = "Ok"
    /\ SubSeq(raw, 5, 8) = <<0, 49, 255, 10>>

\* C10: the length conversions never fail: Chunk::new ends in success or
\* InvalidChunkLength, Chunk::try_from in success, InvalidChunkLength, a
\* truncation error or InvalidCRC.
C10_Outcomes ==
    /\ last = "new" => result \in {"Ok", "InvalidChunkLength"}
    /\ last = "try_from" => result \in {"Ok", "InvalidChunkLength", "Io", "InvalidCRC"}

====
